---- MODULE Spec2Model ----
(***************************************************************************)
(* Model of the shepherd-mvp backend: the RunManager (admission control,   *)
(* run tables, pid table and its write-through file, process termination)  *)
(* of backend/app/main.py, the start_run / cancel_run / run_logs_ws        *)
(* handlers of the same file, and the WebSocketManager of                  *)
(* backend/app/ws_manager.py (connections, replay buffers, activity clock, *)
(* idle monitor).                                                          *)
(*                                                                         *)
(* Everything runs on one asyncio event loop, so a step of the model is    *)
(* the code between two suspension points (await of a socket operation, of *)
(* the launcher, of a sleep).  The critical sections of RunManager contain *)
(* no await: asyncio.Lock.acquire returns without suspending when the lock *)
(* is free, so the lock is never held at a suspension point and every      *)
(* RunManager method runs as one step.                                     *)
(*                                                                         *)
(* Spec is the whole service.  SpecManager drives the RunManager's methods *)
(* directly, in any order; SpecEndpoint is the service without the idle    *)
(* monitor, SpecIdle the service without calls of the cancel endpoint.     *)
(* Every behaviour of SpecEndpoint or SpecIdle is a behaviour of Spec.     *)
(***************************************************************************)
EXTENDS Integers, Sequences, FiniteSets, TLC

\* ------------------------------------------------------------------ bounds
MaxRuns == 2        \* run ids the RunManager is called with
MaxCeiling == 2     \* largest MAX_CONCURRENT_RUNS tried
MaxPids == 1        \* process ids
MaxTime == 2        \* last value of the clock
MaxMonTime == 4     \* last value of the clock when the monitor is followed
                    \* through two idle periods
MaxSysRuns == 1     \* run ids the whole service is driven with
MaxSockets == 1     \* WebSocket connections ever opened
MaxTasks == 1       \* run_with_completion tasks in flight at once
MaxWrapTasks == 2   \* run_with_completion tasks in flight at once when
                    \* only admission, launch and cancellation are driven
MaxHubSockets == 2  \* WebSocket connections ever opened when the
                    \* WebSocketManager is driven directly
MaxCalls == 2       \* send_log calls of run output in flight at once
MaxMsgs == 3        \* run-output messages broadcast
KillPolls == 2      \* liveness polls of kill_process (timeout * 10 = 50 in
                    \* the source), scaled down

RunNames == <<"a", "b", "c", "d">>
RunIds == {RunNames[i] : i \in 1..MaxRuns}
SysRunIds == {RunNames[i] : i \in 1..MaxSysRuns}
Pids == 1..MaxPids
Jobs == {"url"}
Sockets == 1..MaxSockets
HubSockets == 1..MaxHubSockets
AllSockets == Sockets \cup HubSockets
CallIds == 1..MaxCalls
TaskIds == 1..MaxTasks
WrapTasks == 1..MaxWrapTasks
AllTasks == TaskIds \cup WrapTasks
NoSock == MaxSockets + MaxHubSockets + 1
NoPid == MaxPids + 1

\* WebSocketManager.MAX_BUFFER (2000 in the source), scaled down.
MAX_BUFFER == 2
\* WebSocketManager.IDLE_TIMEOUT_SECONDS, read from the environment.
IDLE_TIMEOUT_SECONDS == 1

\* ------------------------------------------------------------------ state
VARIABLES
  max_concurrent,   \* RunManager.max_concurrent, fixed at construction
  active_runs,      \* RunManager.active_runs: run_id -> run record
  completed_runs,   \* RunManager.completed_runs: run_id -> run record
  process_pids,     \* RunManager.process_pids: run_id -> pid
  pid_file,         \* the file RunManager.pid_file names: exists, data
  alive,            \* the pids of the OS processes that are running
  now,              \* datetime.utcnow(), a logical clock
  ret,              \* the last RunManager call, what it returned, and
                    \* (after) the call before it when that was a
                    \* complete_run or cancel_run of the same run id
  sigs,             \* the signals the last step sent, in order
  wrote,            \* how the last step's save_active_pids ended
  admitted,         \* the run ids add_run ever answered "started" for
  input_queues,     \* main.input_queues: the run ids that have a queue
  tasks,            \* the run_with_completion tasks awaiting the launcher
  conns,            \* WebSocketManager._conns: run_id -> set of sockets
  buffers,          \* WebSocketManager._buffers: run_id -> deque
  last_activity,    \* WebSocketManager._last_activity: run_id -> time
  socks,            \* each WebSocket: its run_logs_ws handler, its
                    \* transport, what its peer has received
  closers,          \* sockets with a _close_connection task scheduled
  ep_frames,        \* per run id, the cancel endpoint call suspended in
                    \* send_log
  mon_frame,        \* the idle monitor's call suspended in send_log
  mon,              \* the idle monitor task
  finished,         \* the cancellations of an active run that the last
                    \* step brought to their end, and by which path
  calls,            \* the send_log calls of the run output, each suspended
                    \* in a socket send or free
  sent,             \* how many run-output messages were broadcast so far
  kill,             \* the kill_process call in progress
  loader,           \* the load_orphaned_pids call in progress
  status            \* what the last get_system_status returned

mgrvars == <<max_concurrent, active_runs, completed_runs, process_pids,
             pid_file, alive, now, ret, sigs, wrote, admitted>>
sysvars == <<input_queues, tasks, conns, buffers, last_activity, socks,
             closers, ep_frames, mon_frame, mon, finished>>
recvars == <<sent, kill, loader, status>>
vars == <<mgrvars, sysvars, calls, recvars>>

\* --------------------------------------------------------------- helpers
EmptyMap == [x \in {} |-> x]
Put(f, k, v) == [x \in (DOMAIN f) \cup {k} |-> IF x = k THEN v ELSE f[x]]
Del(f, k) == [x \in (DOMAIN f) \ {k} |-> f[x]]

NoFinish == [by |-> "none", runs |-> {}]
NoFile == [exists |-> FALSE, data |-> EmptyMap]
NoCall == [op |-> "none", run_id |-> "none", value |-> "none",
           after |-> <<"none", "none">>]

\* The RunManager object and the world its methods act on, as one value the
\* methods below transform; sigs and wrote start empty at every step.
RM == [max_concurrent |-> max_concurrent,
       active_runs |-> active_runs,
       completed_runs |-> completed_runs,
       process_pids |-> process_pids,
       pid_file |-> pid_file,
       alive |-> alive,
       sigs |-> <<>>,
       wrote |-> "none"]

\* ------------------------------------------------------------ RunManager
\* save_active_pids: json.dump(self.process_pids) into the pid file; an
\* exception (the directory or the file cannot be opened) is printed and
\* swallowed, the file stays as it was.
save_active_pids(m, ok) ==
  IF ok
  THEN [m EXCEPT !.pid_file = [exists |-> TRUE, data |-> m.process_pids],
                 !.wrote = "ok"]
  ELSE [m EXCEPT !.wrote = "failed"]

register_process(m, run_id, pid, ok) ==
  save_active_pids([m EXCEPT !.process_pids = Put(@, run_id, pid)], ok)

unregister_process_nosave(m, run_id, ok) ==
  IF run_id \in DOMAIN m.process_pids
  THEN [m EXCEPT !.process_pids = Del(@, run_id)]
  ELSE m
unregister_process(m, run_id, ok) ==
  IF run_id \in DOMAIN m.process_pids
  THEN save_active_pids([m EXCEPT !.process_pids = Del(@, run_id)], ok)
  ELSE m

\* is_process_running: os.kill(pid, 0) succeeds.
is_process_running(m, pid) == pid \in m.alive

\* kill_process: SIGTERM, then up to timeout*10 polls of is_process_running,
\* then SIGKILL if the process is still there.  os.kill on a pid that is gone
\* raises and the method returns True; it returns True on every path.  obeys
\* says whether the process exits on SIGTERM within the polls.
kill_process(m, pid, obeys) ==
  IF ~is_process_running(m, pid)
  THEN [m EXCEPT !.sigs = Append(@, <<pid, "SIGTERM">>)]
  ELSE IF obeys
  THEN [m EXCEPT !.sigs = Append(@, <<pid, "SIGTERM">>),
                 !.alive = @ \ {pid}]
  ELSE [m EXCEPT !.sigs = Append(Append(@, <<pid, "SIGTERM">>), <<pid, "SIGKILL">>),
                 !.alive = @ \ {pid}]

\* add_run: under the lock, insert if len(active_runs) < max_concurrent.
add_run_off_by_one(m, run_id, job_data, t) ==
  IF Cardinality(DOMAIN m.active_runs) <= m.max_concurrent
  THEN [m |-> [m EXCEPT !.active_runs = Put(@, run_id,
                  [run_id |-> run_id, status |-> "running",
                   started_at |-> t, job_data |-> job_data])],
        ret |-> "started"]
  ELSE [m |-> m, ret |-> "at_capacity"]
add_run(m, run_id, job_data, t) ==
  IF Cardinality(DOMAIN m.active_runs) < m.max_concurrent
  THEN [m |-> [m EXCEPT !.active_runs = Put(@, run_id,
                  [run_id |-> run_id, status |-> "running",
                   started_at |-> t, job_data |-> job_data])],
        ret |-> "started"]
  ELSE [m |-> m, ret |-> "at_capacity"]

\* complete_run: under the lock, move an active run to completed_runs.
complete_run_unguarded(m, run_id, success, t) ==
  LET run_data == IF run_id \in DOMAIN m.active_runs
                  THEN m.active_runs[run_id]
                  ELSE IF run_id \in DOMAIN m.completed_runs
                  THEN m.completed_runs[run_id]
                  ELSE [run_id |-> run_id]
      done == Put(Put(run_data, "status",
                      IF success THEN "completed" ELSE "failed"),
                  "completed_at", t)
  IN [m EXCEPT !.active_runs = Del(@, run_id),
               !.completed_runs = Put(@, run_id, done)]
complete_run_keeps_active(m, run_id, success, t) ==
  IF run_id \in DOMAIN m.active_runs
  THEN LET run_data == m.active_runs[run_id]
           done == Put(Put(run_data, "status",
                           IF success THEN "completed" ELSE "failed"),
                       "completed_at", t)
       IN [m EXCEPT !.completed_runs = Put(@, run_id, done)]
  ELSE m
complete_run(m, run_id, success, t) ==
  IF run_id \in DOMAIN m.active_runs
  THEN LET run_data == m.active_runs[run_id]
           done == Put(Put(run_data, "status",
                           IF success THEN "completed" ELSE "failed"),
                       "completed_at", t)
       IN [m EXCEPT !.active_runs = Del(@, run_id),
                    !.completed_runs = Put(@, run_id, done)]
  ELSE m

\* cancel_run: under the lock, kill and unregister the run's registered
\* process if there is one, then move the run to completed_runs as cancelled
\* if it is active; True only in that case.
cancel_run_keeps_active(m, run_id, t, obeys, ok) ==
  LET m1 == IF run_id \in DOMAIN m.process_pids
            THEN unregister_process(
                   kill_process(m, m.process_pids[run_id], obeys), run_id, ok)
            ELSE m
  IN IF run_id \in DOMAIN m1.active_runs
     THEN LET run_data == m1.active_runs[run_id]
              done == Put(Put(run_data, "status", "cancelled"),
                          "cancelled_at", t)
          IN [m |-> [m1 EXCEPT !.active_runs = Put(@, run_id, done),
                               !.completed_runs = Put(@, run_id, done)],
              ret |-> TRUE]
     ELSE [m |-> m1, ret |-> FALSE]
cancel_run_found_either(m, run_id, t, obeys, ok) ==
  LET m1 == IF run_id \in DOMAIN m.process_pids
            THEN unregister_process(
                   kill_process(m, m.process_pids[run_id], obeys), run_id, ok)
            ELSE m
  IN IF run_id \in DOMAIN m1.active_runs
     THEN LET run_data == m1.active_runs[run_id]
              done == Put(Put(run_data, "status", "cancelled"),
                          "cancelled_at", t)
          IN [m |-> [m1 EXCEPT !.active_runs = Del(@, run_id),
                               !.completed_runs = Put(@, run_id, done)],
              ret |-> TRUE]
     ELSE [m |-> m1, ret |-> run_id \in DOMAIN m.process_pids]
cancel_run(m, run_id, t, obeys, ok) ==
  LET m1 == IF run_id \in DOMAIN m.process_pids
            THEN unregister_process(
                   kill_process(m, m.process_pids[run_id], obeys), run_id, ok)
            ELSE m
  IN IF run_id \in DOMAIN m1.active_runs
     THEN LET run_data == m1.active_runs[run_id]
              done == Put(Put(run_data, "status", "cancelled"),
                          "cancelled_at", t)
          IN [m |-> [m1 EXCEPT !.active_runs = Del(@, run_id),
                               !.completed_runs = Put(@, run_id, done)],
              ret |-> TRUE]
     ELSE [m |-> m1, ret |-> FALSE]

\* get_run_status: "running" if active, else the recorded status, else
\* "not_found".
get_run_status(m, run_id) ==
  IF run_id \in DOMAIN m.active_runs THEN "running"
  ELSE IF run_id \in DOMAIN m.completed_runs
  THEN m.completed_runs[run_id].status
  ELSE "not_found"

\* ------------------------------------------------------ WebSocketManager
\* Messages are tagged objects; n numbers the run-output messages.
Msg(type, action, n) == [type |-> type, action |-> action, n |-> n]
AckMsg == Msg("connection_ack", "none", 0)
CancelMsg == Msg("run_cancelled", "close_connection", 0)
IdleMsg == Msg("idle_timeout", "none", 0)
\* What the peer sees when the server closes the socket.
CloseMark == Msg("closed", "none", 0)

\* A WebSocket and the run_logs_ws task serving it.  pc: free (not yet
\* connected), acked (connect suspended in the send of connection_ack),
\* replay (connect suspended in the send of a backlog message), open
\* (suspended in receive_text), dead (an exception left run_logs_ws through
\* connect, which is outside its try), ended (the except branches ran).
\* todo is the rest of the deque the replay iterates, live whether that
\* deque is still the one in _buffers, mutated whether it was appended to
\* since the iteration began.  Three fields record history and steer
\* nothing: backlog is the run output in the run's buffer when connect was
\* called,
\* left the number of the last run-output message whose broadcast was over
\* when this socket's own disconnect emptied the run's connection set (0
\* if it did not), floor the largest left of the run's sockets when
\* connect was called.
FreeSock == [run |-> "none", pc |-> "free", up |-> FALSE, inbox |-> <<>>,
             todo |-> <<>>, live |-> FALSE, mutated |-> FALSE,
             backlog |-> <<>>, floor |-> 0, left |-> 0]

\* A send_log call suspended in a socket send.  init is the set it iterates
\* as it was when the iteration began, seen the sockets it has yielded,
\* pending the socket whose send it awaits, disc its 'disconnected' list;
\* live says whether the iterated set is still the one in _conns, frozen is
\* that set when it is not (del _conns[run_id] happened meanwhile).
NoFrame == [st |-> "none", run |-> "none", msg |-> AckMsg, init |-> {},
            seen |-> {}, pending |-> NoSock, disc |-> {}, live |-> FALSE,
            frozen |-> {}]

\* The WebSocketManager object, its sockets and the calls suspended in it,
\* as one value the methods below transform.
HUB == [conns |-> conns,
        buffers |-> buffers,
        last_activity |-> last_activity,
        socks |-> socks,
        closers |-> closers,
        ep_frames |-> ep_frames,
        mon_frame |-> mon_frame,
        calls |-> calls]

Replaying(sk, run_id) == sk.run = run_id /\ sk.pc = "replay" /\ sk.live

\* self._buffers[run_id].append(message) on a deque(maxlen=MAX_BUFFER): the
\* deque is created if missing, its oldest entry dropped when full; every
\* iterator over that deque sees it mutated.
append_buffer_keeps_oldest(h, run_id, message) ==
  LET old == IF run_id \in DOMAIN h.buffers THEN h.buffers[run_id] ELSE <<>>
      all == Append(old, message)
      kept == IF Len(all) > MAX_BUFFER
              THEN SubSeq(all, 1, MAX_BUFFER)
              ELSE all
  IN [h EXCEPT !.buffers = Put(@, run_id, kept),
               !.socks = [w \in DOMAIN h.socks |->
                            IF Replaying(h.socks[w], run_id)
                            THEN [h.socks[w] EXCEPT !.mutated = TRUE]
                            ELSE h.socks[w]]]
append_buffer(h, run_id, message) ==
  LET old == IF run_id \in DOMAIN h.buffers THEN h.buffers[run_id] ELSE <<>>
      all == Append(old, message)
      kept == IF Len(all) > MAX_BUFFER
              THEN SubSeq(all, Len(all) - MAX_BUFFER + 1, Len(all))
              ELSE all
  IN [h EXCEPT !.buffers = Put(@, run_id, kept),
               !.socks = [w \in DOMAIN h.socks |->
                            IF Replaying(h.socks[w], run_id)
                            THEN [h.socks[w] EXCEPT !.mutated = TRUE]
                            ELSE h.socks[w]]]

\* del self._buffers[run_id]: iterators keep the deque they hold.
del_buffer(h, run_id) ==
  IF run_id \in DOMAIN h.buffers
  THEN [h EXCEPT !.buffers = Del(@, run_id),
                 !.socks = [w \in DOMAIN h.socks |->
                              IF Replaying(h.socks[w], run_id)
                              THEN [h.socks[w] EXCEPT !.live = FALSE]
                              ELSE h.socks[w]]]
  ELSE h

\* del self._conns[run_id]: a send_log iterating that set keeps the set.
Detach(f, run_id, cur) ==
  IF f.st = "iter" /\ f.run = run_id /\ f.live
  THEN [f EXCEPT !.live = FALSE, !.frozen = cur]
  ELSE f
del_conns(h, run_id) ==
  IF run_id \in DOMAIN h.conns
  THEN [h EXCEPT !.conns = Del(@, run_id),
                 !.mon_frame = Detach(h.mon_frame, run_id, h.conns[run_id]),
                 !.ep_frames = [x \in DOMAIN h.ep_frames |->
                                  Detach(h.ep_frames[x], run_id, h.conns[run_id])],
                 !.calls = [c \in DOMAIN h.calls |->
                              Detach(h.calls[c], run_id, h.conns[run_id])]]
  ELSE h

\* disconnect: discard the socket (the defaultdict creates the entry); with
\* no connection left, drop the run's activity entry and its buffer.
disconnect_keeps_buffer(h, run_id, ws) ==
  LET left == (IF run_id \in DOMAIN h.conns THEN h.conns[run_id] ELSE {}) \ {ws}
      h1 == [h EXCEPT !.conns = Put(@, run_id, left)]
  IN IF left = {}
     THEN [h1 EXCEPT !.last_activity = Del(@, run_id)]
     ELSE h1
disconnect(h, run_id, ws) ==
  LET left == (IF run_id \in DOMAIN h.conns THEN h.conns[run_id] ELSE {}) \ {ws}
      h1 == [h EXCEPT !.conns = Put(@, run_id, left)]
  IN IF left = {}
     THEN del_buffer([h1 EXCEPT !.last_activity = Del(@, run_id)], run_id)
     ELSE h1

RECURSIVE DisconnectAll(_, _, _)
\* for ws in disconnected: self.disconnect(run_id, ws)
DisconnectAll(h, run_id, wss) ==
  IF wss = {} THEN h
  ELSE LET ws == CHOOSE w \in wss : TRUE
       IN DisconnectAll(disconnect(h, run_id, ws), run_id, wss \ {ws})

\* ws.send_json on a socket whose transport is up.
send_json(h, ws, message) ==
  [h EXCEPT !.socks[ws].inbox = Append(@, message)]

\* ws.close: closes a socket that is up; on one that is not it raises, which
\* every caller catches.
ws_close(h, ws) ==
  IF h.socks[ws].up
  THEN [h EXCEPT !.socks[ws].up = FALSE,
                 !.socks[ws].inbox = Append(@, CloseMark)]
  ELSE h

\* send_log up to its loop: stamp the activity clock, append to the buffer,
\* and, if the run has an entry in _conns, start iterating its set.
send_log_begin(h, run_id, message, t) ==
  LET h1 == append_buffer([h EXCEPT !.last_activity = Put(@, run_id, t)],
                          run_id, message)
  IN IF run_id \in DOMAIN h1.conns
     THEN [h |-> h1,
           f |-> [NoFrame EXCEPT !.st = "iter", !.run = run_id,
                                 !.msg = message, !.init = h1.conns[run_id],
                                 !.live = TRUE]]
     ELSE [h |-> h1, f |-> [NoFrame EXCEPT !.st = "done"]]

IterSet(h, f) == IF f.live THEN h.conns[f.run] ELSE f.frozen
\* The set iterator raises RuntimeError when the set's size is not the size
\* it had when the iteration began.
SizeChanged(h, f) == Cardinality(IterSet(h, f)) # Cardinality(f.init)
\* What the iterator may yield next: a socket of the set it has not yielded
\* (one added meanwhile may or may not be met); NoSock for the end of the
\* loop, once every socket that was there from the start has been yielded.
send_log_picks(h, f) ==
  IF SizeChanged(h, f) THEN {NoSock}
  ELSE LET rest == IterSet(h, f) \ f.seen
       IN rest \cup (IF rest \cap f.init = {} THEN {NoSock} ELSE {})

\* send_log from the return of one send to the next suspension: after a
\* delivered run_cancelled/close_connection schedule the socket's close and
\* list it; take the next socket; send (a send that raises lists the
\* socket); after the loop disconnect the listed sockets.
send_log_next(h0, f0, pick) ==
  LET closing == f0.pending # NoSock /\ f0.msg.type = "run_cancelled"
                 /\ f0.msg.action = "close_connection"
      h == IF closing THEN [h0 EXCEPT !.closers = @ \cup {f0.pending}] ELSE h0
      f == [f0 EXCEPT !.disc = IF closing THEN @ \cup {f0.pending} ELSE @,
                      !.pending = NoSock]
  IN IF SizeChanged(h, f)
     THEN [h |-> h, f |-> [f EXCEPT !.st = "error"]]
     ELSE IF pick = NoSock
     THEN [h |-> DisconnectAll(h, f.run, f.disc), f |-> [f EXCEPT !.st = "done"]]
     ELSE IF h.socks[pick].up
     THEN [h |-> send_json(h, pick, f.msg),
           f |-> [f EXCEPT !.seen = @ \cup {pick}, !.pending = pick]]
     ELSE [h |-> h,
           f |-> [f EXCEPT !.seen = @ \cup {pick}, !.disc = @ \cup {pick}]]

\* send_log from its call to its first suspension (or its return).
send_log(h, run_id, message, t, pick) ==
  LET b == send_log_begin(h, run_id, message, t)
  IN IF b.f.st = "done" THEN b ELSE send_log_next(b.h, b.f, pick)
send_log_first_picks(h, run_id, message, t) ==
  LET b == send_log_begin(h, run_id, message, t)
  IN IF b.f.st = "done" THEN {NoSock} ELSE send_log_picks(b.h, b.f)

\* The variables of the WebSocketManager after a method left it as h.
SetHUB(h) ==
  /\ conns' = h.conns
  /\ buffers' = h.buffers
  /\ last_activity' = h.last_activity
  /\ socks' = h.socks
  /\ closers' = h.closers
  /\ ep_frames' = h.ep_frames
  /\ mon_frame' = h.mon_frame
  /\ calls' = h.calls

\* --------------------------------------------- RunManager, called directly
BoolStr(b) == IF b THEN "true" ELSE "false"

\* The variables of the RunManager after a method left it as m.
SetRM(m) ==
  /\ active_runs' = m.active_runs
  /\ completed_runs' = m.completed_runs
  /\ process_pids' = m.process_pids
  /\ pid_file' = m.pid_file
  /\ alive' = m.alive
  /\ sigs' = m.sigs
  /\ wrote' = m.wrote
  /\ UNCHANGED max_concurrent

Called(op, run_id, value) ==
  ret' = [op |-> op, run_id |-> run_id, value |-> value,
          after |-> IF ret.run_id = run_id
                       /\ ret.op \in {"complete_run", "cancel_run"}
                    THEN <<ret.op, ret.value>> ELSE <<"none", "none">>]

MgrAddRun(run_id, job_data) ==
  LET r == add_run(RM, run_id, job_data, now)
  IN /\ SetRM(r.m)
     /\ Called("add_run", run_id, r.ret)
     /\ admitted' = IF r.ret = "started" THEN admitted \cup {run_id} ELSE admitted
     /\ UNCHANGED <<recvars, calls, now, sysvars>>

MgrCompleteRun(run_id, success) ==
  /\ SetRM(complete_run(RM, run_id, success, now))
  /\ Called("complete_run", run_id, BoolStr(success))
  /\ UNCHANGED <<recvars, calls, now, admitted, sysvars>>

MgrCancelRun(run_id) ==
  \E obeys \in BOOLEAN, ok \in BOOLEAN :
    LET r == cancel_run(RM, run_id, now, obeys, ok)
    IN /\ SetRM(r.m)
       /\ Called("cancel_run", run_id, BoolStr(r.ret))
       /\ UNCHANGED <<recvars, calls, now, admitted, sysvars>>

MgrRegister(run_id, pid) ==
  \E ok \in BOOLEAN :
    /\ SetRM(register_process(RM, run_id, pid, ok))
    /\ Called("register_process", run_id, "none")
    /\ UNCHANGED <<recvars, calls, now, admitted, sysvars>>

MgrUnregister(run_id) ==
  \E ok \in BOOLEAN :
    /\ SetRM(unregister_process(RM, run_id, ok))
    /\ Called("unregister_process", run_id, "none")
    /\ UNCHANGED <<recvars, calls, now, admitted, sysvars>>

\* An external process starts or exits on its own.
ProcSpawn(pid) ==
  /\ pid \notin alive
  /\ alive' = alive \cup {pid}
  /\ UNCHANGED <<recvars, calls, max_concurrent, active_runs, completed_runs, process_pids,
                 pid_file, now, ret, sigs, wrote, admitted, sysvars>>

ProcExit(pid) ==
  /\ pid \in alive
  /\ alive' = alive \ {pid}
  /\ UNCHANGED <<recvars, calls, max_concurrent, active_runs, completed_runs, process_pids,
                 pid_file, now, ret, sigs, wrote, admitted, sysvars>>

TickTo(last) ==
  /\ now < last
  /\ now' = now + 1
  /\ UNCHANGED <<recvars, calls, max_concurrent, active_runs, completed_runs, process_pids,
                 pid_file, alive, ret, sigs, wrote, admitted, sysvars>>

Tick == TickTo(MaxTime)

\* After RunManager.__init__: empty tables; load_orphaned_pids has removed
\* the pid file of the previous session.
MgrInit ==
  /\ max_concurrent \in 1..MaxCeiling
  /\ active_runs = EmptyMap
  /\ completed_runs = EmptyMap
  /\ process_pids = EmptyMap
  /\ pid_file = NoFile
  /\ alive = {}
  /\ now = 0
  /\ ret = NoCall
  /\ sigs = <<>>
  /\ wrote = "none"
  /\ admitted = {}

\* After the lifespan startup: no run, no socket, the idle monitor asleep.
SysInit ==
  /\ input_queues = {}
  /\ tasks = [t \in AllTasks |-> [st |-> "free", run |-> "none", pid |-> NoPid]]
  /\ conns = EmptyMap
  /\ buffers = EmptyMap
  /\ last_activity = EmptyMap
  /\ socks = [w \in AllSockets |-> FreeSock]
  /\ closers = {}
  /\ ep_frames = [r \in SysRunIds |-> NoFrame]
  /\ mon_frame = NoFrame
  /\ mon = [pc |-> "sleep", idle |-> {}, cur |-> "none", success |-> FALSE,
            closing |-> {}, closeat |-> NoSock]
  /\ finished = NoFinish

\* No kill_process or load_orphaned_pids call in progress.
NoKill == [pc |-> "idle", pid |-> NoPid, polls |-> 0, result |-> "none"]
NoLoad == [pc |-> "idle", record |-> EmptyMap, todo |-> {}, cur |-> "none",
           found |-> EmptyMap, outcome |-> "none"]

NoStatus == [max_concurrent |-> 0, active_runs_count |-> 0,
             available_slots |-> 0, system_status |-> "none",
             active_runs |-> {}, recent_completed |-> <<>>]

\* Nothing broadcast yet, nothing being killed, no recovery under way.
AuxInit ==
  /\ calls = [c \in CallIds |-> NoFrame]
  /\ sent = 0
  /\ kill = NoKill
  /\ loader = NoLoad
  /\ status = NoStatus

Init == MgrInit /\ SysInit /\ AuxInit

MgrNext ==
  \/ \E run_id \in RunIds, job_data \in Jobs : MgrAddRun(run_id, job_data)
  \/ \E run_id \in RunIds, success \in BOOLEAN : MgrCompleteRun(run_id, success)
  \/ \E run_id \in RunIds : MgrCancelRun(run_id)
  \/ \E run_id \in RunIds, pid \in Pids : MgrRegister(run_id, pid)
  \/ \E run_id \in RunIds : MgrUnregister(run_id)
  \/ \E pid \in Pids : ProcSpawn(pid)
  \/ \E pid \in Pids : ProcExit(pid)

\* The RunManager under any sequence of calls of its methods.
SpecManager == Init /\ [][MgrNext]_vars

\* ------------------------------------------------------------ the service
\* Every await of a socket operation (accept, send_json, close,
\* receive_text) and asyncio.sleep is a suspension point; a step runs one
\* task from one suspension point to its next.

\* The run-output messages of a sequence, in its order.
IsLog(m) == m.type = "log"
Logs(seq) == SelectSeq(seq, IsLog)

\* The run's buffer, empty if it has none.
BufferOf(h, run_id) ==
  IF run_id \in DOMAIN h.buffers THEN h.buffers[run_id] ELSE <<>>
RECURSIVE MaxOf(_)
MaxOf(S) ==
  IF S = {} THEN 0
  ELSE LET x == CHOOSE y \in S : TRUE
           rest == MaxOf(S \ {x})
       IN IF x > rest THEN x ELSE rest
\* The number of the last message whose broadcast was over when a
\* disconnect last emptied the run's connection set.
LastEmptied(h, run_id) ==
  MaxOf({h.socks[w].left : w \in {x \in DOMAIN h.socks : h.socks[x].run = run_id}})

\* connect from the return of accept to the send of connection_ack.
connect(h, run_id, ws, t) ==
  [h EXCEPT !.socks[ws] = [FreeSock EXCEPT !.run = run_id, !.pc = "acked",
                                           !.up = TRUE, !.inbox = <<AckMsg>>,
                                           !.backlog = Logs(BufferOf(h, run_id)),
                                           !.floor = LastEmptied(h, run_id)],
            !.conns = Put(@, run_id,
                          (IF run_id \in DOMAIN @ THEN @[run_id] ELSE {}) \cup {ws}),
            !.last_activity = Put(@, run_id, t)]

\* connect from the return of one send to the next: the first time the
\* iteration over self._buffers[run_id] begins (the defaultdict creates the
\* deque); the deque iterator raises RuntimeError if the deque was appended
\* to since; each backlog message is sent, a send on a closed socket raises.
\* An exception leaves run_logs_ws (connect is outside its try): the socket
\* stays in _conns and the framework closes it.
connect_next(h, ws) ==
  LET sk0 == h.socks[ws]
      run_id == sk0.run
      h1 == IF sk0.pc = "acked" /\ run_id \notin DOMAIN h.buffers
            THEN [h EXCEPT !.buffers = Put(@, run_id, <<>>)] ELSE h
      sk == IF sk0.pc = "acked"
            THEN [sk0 EXCEPT !.todo = h1.buffers[run_id], !.live = TRUE,
                             !.mutated = FALSE]
            ELSE sk0
      raised == ws_close([h1 EXCEPT !.socks[ws] =
                            [sk EXCEPT !.pc = "dead", !.todo = <<>>,
                                       !.live = FALSE]], ws)
  IN IF sk.mutated THEN raised
     ELSE IF sk.todo = <<>>
     THEN [h1 EXCEPT !.socks[ws] = [sk EXCEPT !.pc = "open", !.live = FALSE]]
     ELSE IF sk.up
     THEN [h1 EXCEPT !.socks[ws] =
             [sk EXCEPT !.pc = "replay", !.todo = Tail(sk.todo),
                        !.inbox = Append(@, Head(sk.todo))]]
     ELSE raised

\* A client opens /ws/{run_id}: run_logs_ws up to connect's first send.
WsConnect(ws, run_id) ==
  /\ socks[ws].pc = "free"
  /\ SetHUB(connect(HUB, run_id, ws, now))
  /\ finished' = NoFinish
  /\ UNCHANGED <<recvars, mgrvars, input_queues, tasks, mon>>

\* run_logs_ws resumes inside connect.
WsReplay(ws) ==
  /\ socks[ws].pc \in {"acked", "replay"}
  /\ SetHUB(connect_next(HUB, ws))
  /\ finished' = NoFinish
  /\ UNCHANGED <<recvars, mgrvars, input_queues, tasks, mon>>

\* The client closes its end.
PeerClose(ws) ==
  /\ socks[ws].up
  /\ socks' = [socks EXCEPT ![ws].up = FALSE]
  /\ finished' = NoFinish
  /\ UNCHANGED <<recvars, calls, mgrvars, input_queues, tasks, conns, buffers, last_activity,
                 closers, ep_frames, mon_frame, mon>>

\* The number of the last run-output message whose send_log call, and
\* every earlier one, is over.
BroadcastDone ==
  LET inflight == {calls[c].msg.n : c \in {d \in CallIds : calls[d].st = "iter"}}
  IN IF inflight = {} THEN sent
     ELSE (CHOOSE n \in inflight : \A k \in inflight : n <= k) - 1

\* receive_text raises WebSocketDisconnect: disconnect, and with no
\* connection left for the run its input queue is deleted.
WsDisconnected(ws) ==
  /\ socks[ws].pc = "open"
  /\ ~socks[ws].up
  /\ LET run_id == socks[ws].run
         h1 == disconnect(HUB, run_id, ws)
         emptied == run_id \in DOMAIN conns /\ ws \in conns[run_id]
                    /\ h1.conns[run_id] = {}
     IN /\ SetHUB([h1 EXCEPT !.socks[ws].pc = "ended",
                              !.socks[ws].left =
                                IF emptied THEN BroadcastDone ELSE 0])
        /\ input_queues' =
             IF run_id \notin DOMAIN h1.conns \/ h1.conns[run_id] = {}
             THEN input_queues \ {run_id} ELSE input_queues
  /\ finished' = NoFinish
  /\ UNCHANGED <<recvars, mgrvars, tasks, mon>>

\* A _close_connection task runs: ws.close, any exception swallowed.
CloserRun(ws) ==
  /\ ws \in closers
  /\ SetHUB([ws_close(HUB, ws) EXCEPT !.closers = @ \ {ws}])
  /\ finished' = NoFinish
  /\ UNCHANGED <<recvars, mgrvars, input_queues, tasks, mon>>

\* The cancel endpoint after send_log returned, raised (the endpoint catches
\* it) or suspended: once send_log is over, del _conns[run_id] and
\* del input_queues[run_id].
EpContinue(run_id, s) ==
  IF s.f.st = "iter"
  THEN /\ SetHUB([s.h EXCEPT !.ep_frames[run_id] = s.f])
       /\ finished' = NoFinish
       /\ UNCHANGED input_queues
  ELSE /\ SetHUB(del_conns([s.h EXCEPT !.ep_frames[run_id] = NoFrame], run_id))
       /\ finished' = [by |-> "endpoint", runs |-> {run_id}]
       /\ input_queues' = input_queues \ {run_id}

\* DELETE /runs/{run_id}/cancel up to its first suspension.  One call per run
\* id is in flight at a time.
CancelEndpoint(run_id) ==
  /\ ep_frames[run_id].st = "none"
  /\ \E obeys \in BOOLEAN, ok \in BOOLEAN :
       LET c == cancel_run(RM, run_id, now, obeys, ok)
       IN /\ SetRM(c.m)
          /\ Called("cancel_run", run_id, BoolStr(c.ret))
          /\ IF c.ret
             THEN \E p \in send_log_first_picks(HUB, run_id, CancelMsg, now) :
                    EpContinue(run_id, send_log(HUB, run_id, CancelMsg, now, p))
             ELSE /\ finished' = NoFinish
                  /\ UNCHANGED <<calls, input_queues, conns, buffers, last_activity,
                                 socks, closers, ep_frames, mon_frame>>
  /\ UNCHANGED <<recvars, now, admitted, tasks, mon>>

\* The cancel endpoint resumes inside send_log.
CancelEndpointResume(run_id) ==
  /\ ep_frames[run_id].st = "iter"
  /\ \E p \in send_log_picks(HUB, ep_frames[run_id]) :
       EpContinue(run_id, send_log_next(HUB, ep_frames[run_id], p))
  /\ UNCHANGED <<recvars, mgrvars, tasks, mon>>

\* POST /runs/{run_id}: add_run; when started, the input queue is created
\* and run_with_completion is scheduled (it starts awaiting the launcher).
start_run_in(pool, run_id, job_data) ==
  LET r == add_run(RM, run_id, job_data, now)
      free == {t \in pool : tasks[t].st = "free"}
  IN /\ r.ret = "started" => free # {}
     /\ SetRM(r.m)
     /\ Called("add_run", run_id, r.ret)
     /\ admitted' = IF r.ret = "started" THEN admitted \cup {run_id} ELSE admitted
     /\ IF r.ret = "started"
        THEN /\ input_queues' = input_queues \cup {run_id}
             /\ LET t == CHOOSE x \in free : \A y \in free : x <= y
                IN tasks' = [tasks EXCEPT ![t] = [st |-> "launch", run |-> run_id,
                                                  pid |-> NoPid]]
        ELSE UNCHANGED <<input_queues, tasks>>
     /\ finished' = NoFinish
     /\ UNCHANGED <<recvars, calls, now, conns, buffers, last_activity, socks, closers,
                    ep_frames, mon_frame, mon>>

start_run(run_id, job_data) == start_run_in(TaskIds, run_id, job_data)

\* launch_mas_interactive starts the run's external process.
LaunchSpawn(t, pid) ==
  /\ tasks[t].st = "launch"
  /\ tasks[t].pid = NoPid
  /\ pid \notin alive
  /\ alive' = alive \cup {pid}
  /\ tasks' = [tasks EXCEPT ![t].pid = pid]
  /\ finished' = NoFinish
  /\ UNCHANGED <<recvars, calls, max_concurrent, active_runs, completed_runs, process_pids,
                 pid_file, now, ret, sigs, wrote, admitted, input_queues,
                 conns, buffers, last_activity, socks, closers, ep_frames,
                 mon_frame, mon>>

\* launch_mas_interactive returns or raises, and run_with_completion runs to
\* its end: register_process when the result carries a pid, then in the
\* finally unregister_process, complete_run, del input_queues[run_id].
LaunchReturn(t) ==
  /\ tasks[t].st = "launch"
  /\ \E raised \in BOOLEAN, haspid \in BOOLEAN, success \in BOOLEAN,
        ok1 \in BOOLEAN, ok2 \in BOOLEAN :
       /\ raised => ~haspid /\ ~success
       /\ haspid => tasks[t].pid # NoPid
       /\ LET run_id == tasks[t].run
              m1 == IF haspid
                    THEN register_process(RM, run_id, tasks[t].pid, ok1)
                    ELSE RM
              m2 == unregister_process(m1, run_id, ok2)
          IN /\ SetRM(complete_run(m2, run_id, success, now))
             /\ Called("complete_run", run_id, BoolStr(success))
             /\ input_queues' = input_queues \ {run_id}
  /\ tasks' = [tasks EXCEPT ![t] = [st |-> "free", run |-> "none", pid |-> NoPid]]
  /\ finished' = NoFinish
  /\ UNCHANGED <<recvars, calls, now, admitted, conns, buffers, last_activity, socks, closers,
                 ep_frames, mon_frame, mon>>


\* ------------------------------------------------------- the idle monitor
\* One step of _monitor_idle_connections can run through several runs of
\* idle_runs, so it is computed on a value S of the whole service and yields
\* the set of values the step can end in (the order sets are iterated in and
\* the outcome of a kill are not the monitor's to choose).  idle_runs is kept
\* as a set and taken in any order.  mgr says whether the step called the
\* RunManager; fin collects the active runs whose cancellation it finished.
SYS == [m |-> RM, h |-> HUB, q |-> input_queues, mon |-> mon, call |-> ret,
        mgr |-> FALSE, fin |-> {}]

CallRec(prev, op, run_id, value) ==
  [op |-> op, run_id |-> run_id, value |-> value,
   after |-> IF prev.run_id = run_id /\ prev.op \in {"complete_run", "cancel_run"}
             THEN <<prev.op, prev.value>> ELSE <<"none", "none">>]

RECURSIVE MonNextRun(_)
RECURSIVE MonStartRun(_, _)
RECURSIVE MonSendResult(_, _, _)
RECURSIVE MonAfterSend(_, _)
RECURSIVE MonCloseAll(_, _)
RECURSIVE MonFinishRun(_, _)

\* for run_id, idle_duration in idle_runs: the next run, or back to sleep.
MonNextRun(S) ==
  IF S.mon.idle = {}
  THEN {[S EXCEPT !.mon = [@ EXCEPT !.pc = "sleep", !.cur = "none",
                                    !.success = FALSE, !.closing = {},
                                    !.closeat = NoSock]]}
  ELSE UNION {MonStartRun(S, run_id) : run_id \in S.mon.idle}

\* await self.send_log(run_id, idle_timeout) up to its first suspension.
MonStartRun(S, run_id) ==
  LET b == send_log_begin(S.h, run_id, IdleMsg, now)
      S1 == [S EXCEPT !.h = b.h, !.mon.cur = run_id]
  IN IF b.f.st = "done" THEN MonAfterSend(S1, run_id)
     ELSE UNION {MonSendResult(S1, run_id, send_log_next(b.h, b.f, p)) :
                   p \in send_log_picks(b.h, b.f)}

MonSendResult_exits(S, run_id, s) ==
  IF s.f.st = "iter"
  THEN {[S EXCEPT !.h = [s.h EXCEPT !.mon_frame = s.f], !.mon.pc = "send"]}
  ELSE IF s.f.st = "error"
  THEN {[S EXCEPT !.h = [s.h EXCEPT !.mon_frame = NoFrame],
                  !.mon = [@ EXCEPT !.pc = "stopped", !.idle = {},
                                    !.cur = "none"]]}
  ELSE MonAfterSend([S EXCEPT !.h = [s.h EXCEPT !.mon_frame = NoFrame]], run_id)

\* send_log suspended again, raised (the loop's except Exception: the rest
\* of idle_runs is abandoned for the long sleep), or returned.
MonSendResult(S, run_id, s) ==
  IF s.f.st = "iter"
  THEN {[S EXCEPT !.h = [s.h EXCEPT !.mon_frame = s.f], !.mon.pc = "send"]}
  ELSE IF s.f.st = "error"
  THEN {[S EXCEPT !.h = [s.h EXCEPT !.mon_frame = NoFrame],
                  !.mon = [@ EXCEPT !.pc = "backoff", !.idle = {},
                                    !.cur = "none"]]}
  ELSE MonAfterSend([S EXCEPT !.h = [s.h EXCEPT !.mon_frame = NoFrame]], run_id)

\* success = await self._run_manager.cancel_run(run_id), then
\* close_all_connections.
MonAfterSend(S, run_id) ==
  UNION {MonCloseAll([S EXCEPT !.m = c.m,
                               !.call = CallRec(@, "cancel_run", run_id, BoolStr(c.ret)),
                               !.mgr = TRUE,
                               !.mon.success = c.ret], run_id) :
           c \in {cancel_run(S.m, run_id, now, obeys, ok) :
                    obeys \in BOOLEAN, ok \in BOOLEAN}}

\* close_all_connections up to its first ws.close.
MonCloseAll(S, run_id) ==
  IF run_id \notin DOMAIN S.h.conns THEN MonFinishRun(S, run_id)
  ELSE LET connections == S.h.conns[run_id]
       IN IF connections = {}
          THEN MonFinishRun([S EXCEPT !.h = del_conns(@, run_id)], run_id)
          ELSE {[S EXCEPT !.h = ws_close(@, ws),
                          !.mon = [@ EXCEPT !.pc = "close",
                                            !.closing = connections \ {ws},
                                            !.closeat = ws]] :
                  ws \in connections}

\* close_all_connections from the return of one ws.close: disconnect that
\* socket, close the next; after the last, del self._conns[run_id].
MonCloseResume(S) ==
  LET run_id == S.mon.cur
      h1 == disconnect(S.h, run_id, S.mon.closeat)
  IN IF S.mon.closing # {}
     THEN {[S EXCEPT !.h = ws_close(h1, ws),
                     !.mon = [@ EXCEPT !.closing = @ \ {ws}, !.closeat = ws]] :
             ws \in S.mon.closing}
     ELSE MonFinishRun([S EXCEPT !.h = del_conns(h1, run_id)], run_id)

\* del self._last_activity[run_id]: the run's idle sequence is over.
MonFinishRun(S, run_id) ==
  MonNextRun([S EXCEPT !.h.last_activity = Del(@, run_id),
                       !.fin = IF S.mon.success THEN @ \cup {run_id} ELSE @,
                       !.mon.idle = @ \ {run_id}])

\* The variables of the service after a monitor step left it as S.
SetSYS(S) ==
  /\ IF S.mgr THEN SetRM(S.m)
     ELSE UNCHANGED <<max_concurrent, active_runs, completed_runs,
                      process_pids, pid_file, alive, sigs, wrote>>
  /\ ret' = S.call
  /\ SetHUB(S.h)
  /\ input_queues' = S.q
  /\ mon' = S.mon
  /\ finished' = IF S.fin = {} THEN NoFinish
                 ELSE [by |-> "monitor", runs |-> S.fin]
  /\ UNCHANGED <<recvars, now, admitted, tasks>>

\* The runs a scan finds idle: activity older than the timeout and at least
\* one tracked connection.
IdleRuns(h, t) ==
  {run_id \in DOMAIN h.last_activity :
     /\ t - h.last_activity[run_id] > IDLE_TIMEOUT_SECONDS
     /\ run_id \in DOMAIN h.conns
     /\ h.conns[run_id] # {}}

\* asyncio.sleep(30) returns: the scan, and the first idle run's sequence up
\* to its first suspension.
MonWake ==
  /\ mon.pc = "sleep"
  /\ \E S \in MonNextRun([SYS EXCEPT !.mon.idle = IdleRuns(HUB, now)]) : SetSYS(S)

\* The monitor resumes inside send_log.
MonSend ==
  /\ mon.pc = "send"
  /\ \E p \in send_log_picks(HUB, mon_frame) :
       \E S \in MonSendResult(SYS, mon.cur, send_log_next(HUB, mon_frame, p)) :
         SetSYS(S)

\* The monitor resumes inside close_all_connections.
MonClose ==
  /\ mon.pc = "close"
  /\ \E S \in MonCloseResume(SYS) : SetSYS(S)

\* asyncio.sleep(60) after an error returns; the loop sleeps again.
MonBackoffWake ==
  /\ mon.pc = "backoff"
  /\ mon' = [mon EXCEPT !.pc = "sleep"]
  /\ finished' = NoFinish
  /\ UNCHANGED <<recvars, calls, mgrvars, input_queues, tasks, conns, buffers, last_activity,
                 socks, closers, ep_frames, mon_frame>>

\* stop_idle_monitor (called by the lifespan at shutdown): task.cancel()
\* raises CancelledError in the monitor at the await it is suspended in.  At
\* asyncio.sleep(30) the loop's except CancelledError breaks; inside send_log
\* and close_all_connections the error passes their except Exception (it is
\* a BaseException) and the loop breaks; inside the handler's
\* asyncio.sleep(60) it leaves the loop.  In each case the task is over and
\* whatever the interrupted call had not done yet is never done.
MonStop ==
  /\ mon.pc \in {"sleep", "send", "close", "backoff"}
  /\ mon' = [pc |-> "stopped", idle |-> {}, cur |-> "none", success |-> FALSE,
             closing |-> {}, closeat |-> NoSock]
  /\ mon_frame' = NoFrame
  /\ finished' = NoFinish
  /\ UNCHANGED <<recvars, calls, mgrvars, input_queues, tasks, conns, buffers,
                 last_activity, socks, closers, ep_frames>>

\* The whole service.
Next ==
  \/ \E run_id \in SysRunIds, job_data \in Jobs : start_run(run_id, job_data)
  \/ \E t \in TaskIds, pid \in Pids : LaunchSpawn(t, pid)
  \/ \E t \in TaskIds : LaunchReturn(t)
  \/ \E pid \in Pids : ProcExit(pid)
  \/ \E run_id \in SysRunIds : CancelEndpoint(run_id)
  \/ \E run_id \in SysRunIds : CancelEndpointResume(run_id)
  \/ \E ws \in Sockets, run_id \in SysRunIds : WsConnect(ws, run_id)
  \/ \E ws \in Sockets : WsReplay(ws)
  \/ \E ws \in Sockets : PeerClose(ws)
  \/ \E ws \in Sockets : WsDisconnected(ws)
  \/ \E ws \in Sockets : CloserRun(ws)
  \/ MonWake
  \/ MonSend
  \/ MonClose
  \/ MonBackoffWake
  \/ Tick

Spec == Init /\ [][Next]_vars

\* The service with user-initiated cancellation only: no idle monitor, so
\* the clock plays no part.
NextEndpoint ==
  \/ \E run_id \in SysRunIds, job_data \in Jobs : start_run(run_id, job_data)
  \/ \E t \in TaskIds, pid \in Pids : LaunchSpawn(t, pid)
  \/ \E t \in TaskIds : LaunchReturn(t)
  \/ \E pid \in Pids : ProcExit(pid)
  \/ \E run_id \in SysRunIds : CancelEndpoint(run_id)
  \/ \E run_id \in SysRunIds : CancelEndpointResume(run_id)
  \/ \E ws \in Sockets, run_id \in SysRunIds : WsConnect(ws, run_id)
  \/ \E ws \in Sockets : WsReplay(ws)
  \/ \E ws \in Sockets : PeerClose(ws)
  \/ \E ws \in Sockets : WsDisconnected(ws)
  \/ \E ws \in Sockets : CloserRun(ws)

SpecEndpoint == Init /\ [][NextEndpoint]_vars

\* Admission, launch and user-initiated cancellation with no WebSocket
\* client, and room for a second run_with_completion task: a run id can be
\* admitted again while an earlier launch under the same id is still running.
NextWrapper ==
  \/ \E run_id \in SysRunIds, job_data \in Jobs : start_run_in(WrapTasks, run_id, job_data)
  \/ \E t \in WrapTasks, pid \in Pids : LaunchSpawn(t, pid)
  \/ \E t \in WrapTasks : LaunchReturn(t)
  \/ \E pid \in Pids : ProcExit(pid)
  \/ \E run_id \in SysRunIds : CancelEndpoint(run_id)

SpecWrapper == Init /\ [][NextWrapper]_vars

\* The service with idle-triggered cancellation only: nobody calls the
\* cancel endpoint.
NextIdle ==
  \/ \E run_id \in SysRunIds, job_data \in Jobs : start_run(run_id, job_data)
  \/ \E t \in TaskIds, pid \in Pids : LaunchSpawn(t, pid)
  \/ \E t \in TaskIds : LaunchReturn(t)
  \/ \E pid \in Pids : ProcExit(pid)
  \/ \E ws \in Sockets, run_id \in SysRunIds : WsConnect(ws, run_id)
  \/ \E ws \in Sockets : WsReplay(ws)
  \/ \E ws \in Sockets : PeerClose(ws)
  \/ \E ws \in Sockets : WsDisconnected(ws)
  \/ MonWake
  \/ MonSend
  \/ MonClose
  \/ MonBackoffWake
  \/ Tick

SpecIdle == Init /\ [][NextIdle]_vars

\* The idle monitor with two WebSocket clients, from startup to the
\* shutdown that stops it: nobody calls the cancel endpoint, and the
\* launcher's process is left out.
NextMonitor ==
  \/ \E run_id \in SysRunIds, job_data \in Jobs :
       mon.pc # "stopped" /\ start_run(run_id, job_data)
  \/ \E t \in TaskIds : mon.pc # "stopped" /\ LaunchReturn(t)
  \/ \E ws \in HubSockets, run_id \in SysRunIds :
       /\ mon.pc # "stopped"
       /\ \A w \in HubSockets : w < ws => socks[w].pc # "free"
       /\ WsConnect(ws, run_id)
  \/ \E ws \in HubSockets : mon.pc # "stopped" /\ WsReplay(ws)
  \/ \E ws \in HubSockets :
       mon.pc # "stopped" /\ socks[ws].pc = "open" /\ PeerClose(ws)
  \/ \E ws \in HubSockets : mon.pc # "stopped" /\ WsDisconnected(ws)
  \/ MonWake
  \/ MonSend
  \/ MonClose
  \/ MonBackoffWake
  \/ MonStop
  \/ mon.pc # "stopped" /\ Tick

SpecMonitor == Init /\ [][NextMonitor]_vars

\* The idle monitor through an error and the cycles after it: a run that is
\* admitted before its two WebSocket clients connect, a launcher that does
\* not return, no shutdown, and a clock that runs long enough for a run to
\* go idle twice.  The clock's unit is the monitor's sleep: a socket
\* operation takes less, so the clock moves while the monitor sleeps.
TickBackoff == mon.pc \in {"sleep", "backoff"} /\ TickTo(MaxMonTime)

NextBackoff ==
  \/ \E run_id \in SysRunIds, job_data \in Jobs :
       conns = EmptyMap /\ start_run(run_id, job_data)
  \/ \E ws \in HubSockets, run_id \in SysRunIds :
       /\ \A w \in HubSockets : w < ws => socks[w].pc # "free"
       /\ WsConnect(ws, run_id)
  \/ \E ws \in HubSockets : WsReplay(ws)
  \/ \E ws \in HubSockets : socks[ws].pc = "open" /\ PeerClose(ws)
  \/ \E ws \in HubSockets : WsDisconnected(ws)
  \/ MonWake
  \/ MonSend
  \/ MonClose
  \/ MonBackoffWake
  \/ TickBackoff

\* The monitor task's next step, whichever await it is suspended in.
MonStep == MonWake \/ MonSend \/ MonClose \/ MonBackoffWake

\* The ceiling plays no part with one run id and is taken at its largest
\* value.
InitBackoff == Init /\ max_concurrent = MaxCeiling

\* The event loop runs the monitor task whenever it can go on (its sleeps
\* end, its socket operations return), and time passes.
SpecBackoff ==
  /\ InitBackoff /\ [][NextBackoff]_vars
  /\ WF_vars(MonStep) /\ WF_vars(TickBackoff)

\* ------------------------------------- kill_process and orphan recovery
\* kill_process and load_orphaned_pids are synchronous: no other code of the
\* service runs while they do, but the processes they signal live on their
\* own, so they are taken one system call at a time, with ProcSpawn and
\* ProcExit free to happen in between.  sigs collects their os.kill calls
\* with a real signal, delivered or not.
MaxOrphanPids == 2
OrphanPids == 1..MaxOrphanPids

\* No synchronous RunManager code is in progress.
Quiet == loader.pc \in {"idle", "done"} /\ kill.pc \in {"idle", "done"}

\* os.kill(pid, SIGTERM); on a pid that is gone it raises and kill_process
\* returns True.  With timeout * 10 = 0 polls the SIGKILL comes next.
KillSignal_then_force ==
  /\ kill.pc = "signal"
  /\ sigs' = Append(sigs, <<kill.pid, "SIGTERM">>)
  /\ kill' = IF kill.pid \in alive
             THEN [kill EXCEPT !.pc = "force"]
             ELSE [kill EXCEPT !.pc = "done", !.result = "true"]
  /\ UNCHANGED <<status, max_concurrent, active_runs, completed_runs, process_pids,
                 pid_file, alive, now, ret, wrote, admitted, sysvars, calls,
                 sent, loader>>
KillSignal ==
  /\ kill.pc = "signal"
  /\ sigs' = Append(sigs, <<kill.pid, "SIGTERM">>)
  /\ kill' = IF kill.pid \in alive
             THEN [kill EXCEPT !.pc = IF KillPolls = 0 THEN "force" ELSE "poll"]
             ELSE [kill EXCEPT !.pc = "done", !.result = "true"]
  /\ UNCHANGED <<status, max_concurrent, active_runs, completed_runs, process_pids,
                 pid_file, alive, now, ret, wrote, admitted, sysvars, calls,
                 sent, loader>>

\* One turn of the polling loop: is_process_running; if not, return True;
\* else sleep 0.1 s.  polls counts the polls that found the process alive.
KillPoll ==
  /\ kill.pc = "poll"
  /\ kill' = IF kill.pid \notin alive
             THEN [kill EXCEPT !.pc = "done", !.result = "true"]
             ELSE [kill EXCEPT !.polls = @ + 1,
                               !.pc = IF kill.polls + 1 = KillPolls
                                      THEN "force" ELSE "poll"]
  /\ UNCHANGED <<status, max_concurrent, active_runs, completed_runs, process_pids,
                 pid_file, alive, now, ret, sigs, wrote, admitted, sysvars,
                 calls, sent, loader>>

\* os.kill(pid, SIGKILL) after the last poll, return True; on a pid that is
\* gone it raises and kill_process returns True.
KillForce ==
  /\ kill.pc = "force"
  /\ sigs' = Append(sigs, <<kill.pid, "SIGKILL">>)
  /\ alive' = alive \ {kill.pid}
  /\ kill' = [kill EXCEPT !.pc = "done", !.result = "true"]
  /\ UNCHANGED <<status, max_concurrent, active_runs, completed_runs, process_pids,
                 pid_file, now, ret, wrote, admitted, sysvars, calls, sent,
                 loader>>

\* A new controller process starts where an earlier one stopped without
\* cleaning up: RunManager.__init__ makes empty tables and calls
\* load_orphaned_pids, which, if the pid file exists, reads it.  A file that
\* json.load cannot read (readable = FALSE) raises into the except branch:
\* nothing is signalled and the file stays.
Restart(readable) ==
  /\ Quiet
  /\ active_runs' = EmptyMap
  /\ completed_runs' = EmptyMap
  /\ process_pids' = EmptyMap
  /\ admitted' = {}
  /\ ret' = NoCall
  /\ sigs' = <<>>
  /\ wrote' = "none"
  /\ kill' = NoKill
  /\ loader' = IF ~pid_file.exists
               THEN [NoLoad EXCEPT !.pc = "done", !.outcome = "no_file"]
               ELSE IF ~readable
               THEN [NoLoad EXCEPT !.pc = "done", !.outcome = "unreadable"]
               ELSE [NoLoad EXCEPT !.pc = "loop", !.record = pid_file.data,
                                   !.todo = DOMAIN pid_file.data]
  /\ UNCHANGED <<status, max_concurrent, pid_file, alive, now, sysvars, calls, sent>>

\* for run_id, pid in orphaned_pids.items(): is_process_running(pid); if so
\* kill_process(pid) is called.  found keeps what the check saw.
LoadCheck_kills_all(run_id) ==
  /\ loader.pc = "loop"
  /\ run_id \in loader.todo
  /\ LET pid == loader.record[run_id]
     IN /\ loader' = [loader EXCEPT !.pc = "kill", !.cur = run_id,
                        !.found = Put(@, run_id,
                                      IF pid \in alive THEN "alive" ELSE "dead")]
        /\ kill' = [NoKill EXCEPT !.pc = "signal", !.pid = pid]
  /\ UNCHANGED <<status, max_concurrent, active_runs, completed_runs, process_pids,
                 pid_file, alive, now, ret, sigs, wrote, admitted, sysvars,
                 calls, sent>>
LoadCheck(run_id) ==
  /\ loader.pc = "loop"
  /\ run_id \in loader.todo
  /\ LET pid == loader.record[run_id]
     IN IF pid \in alive
        THEN /\ loader' = [loader EXCEPT !.pc = "kill", !.cur = run_id,
                                         !.found = Put(@, run_id, "alive")]
             /\ kill' = [NoKill EXCEPT !.pc = "signal", !.pid = pid]
        ELSE /\ loader' = [loader EXCEPT !.todo = @ \ {run_id},
                                         !.found = Put(@, run_id, "dead")]
             /\ UNCHANGED kill
  /\ UNCHANGED <<status, max_concurrent, active_runs, completed_runs, process_pids,
                 pid_file, alive, now, ret, sigs, wrote, admitted, sysvars,
                 calls, sent>>

\* kill_process has returned to the loop.
LoadResume ==
  /\ loader.pc = "kill"
  /\ kill.pc = "done"
  /\ loader' = [loader EXCEPT !.pc = "loop", !.todo = @ \ {loader.cur},
                              !.cur = "none"]
  /\ kill' = [kill EXCEPT !.pc = "idle"]
  /\ UNCHANGED <<status, max_concurrent, active_runs, completed_runs, process_pids,
                 pid_file, alive, now, ret, sigs, wrote, admitted, sysvars,
                 calls, sent>>

\* After the loop: self.pid_file.unlink(); if that raises (ok = FALSE) the
\* except branch prints it and the file stays.
LoadUnlink(ok) ==
  /\ loader.pc = "loop"
  /\ loader.todo = {}
  /\ pid_file' = IF ok THEN NoFile ELSE pid_file
  /\ loader' = [loader EXCEPT !.pc = "done",
                  !.outcome = IF ok THEN "unlinked" ELSE "unlink_failed"]
  /\ UNCHANGED <<status, max_concurrent, active_runs, completed_runs, process_pids,
                 alive, now, ret, sigs, wrote, admitted, sysvars, calls, sent,
                 kill>>

KillStep == KillSignal \/ KillPoll \/ KillForce
LoadStep == (\E run_id \in RunIds : LoadCheck(run_id)) \/ LoadResume
            \/ (\E ok \in BOOLEAN : LoadUnlink(ok))

\* The pid table is filled and emptied, processes come and go, the
\* controller is restarted.
NextRecovery ==
  \/ \E run_id \in RunIds, pid \in OrphanPids : Quiet /\ MgrRegister(run_id, pid)
  \/ \E run_id \in RunIds : Quiet /\ MgrUnregister(run_id)
  \/ \E pid \in OrphanPids : ProcSpawn(pid)
  \/ \E pid \in OrphanPids : ProcExit(pid)
  \/ \E readable \in BOOLEAN : Restart(readable)
  \/ \E run_id \in RunIds : LoadCheck(run_id)
  \/ LoadResume
  \/ \E ok \in BOOLEAN : LoadUnlink(ok)
  \/ KillSignal
  \/ KillPoll
  \/ KillForce

\* Synchronous code runs on: a started kill_process or load_orphaned_pids
\* takes its next step.
SpecRecovery ==
  Init /\ [][NextRecovery]_vars /\ WF_vars(KillStep) /\ WF_vars(LoadStep)

\* ------------------------------------------------------ get_system_status
\* [:5] of the sorted completed runs.
RecentLimit == 5

\* key=lambda x: x[1].get("completed_at", ""): a record without completed_at
\* (cancel_run writes cancelled_at) gets the empty string, which sorts before
\* every timestamp.
SortKey(run_data) ==
  IF "completed_at" \in DOMAIN run_data THEN run_data.completed_at ELSE -1

\* sorted(self.completed_runs.items(), key=..., reverse=True): the run ids by
\* key, largest first.  Equal keys keep the dict's insertion order, which the
\* model does not keep: every order of equal keys is a possible result.
SortedCompleted(m) ==
  LET ids == DOMAIN m.completed_runs
      n == Cardinality(ids)
  IN {seq \in [1..n -> ids] :
        /\ \A i \in 1..n, j \in 1..n : i # j => seq[i] # seq[j]
        /\ \A i \in 1..n, j \in 1..n :
             i < j => SortKey(m.completed_runs[seq[i]])
                        >= SortKey(m.completed_runs[seq[j]])}

\* get_system_status, given the sorted order: the counts and the first five
\* of the sorted runs, each with run_data.get("completed_at") ("none" for
\* Python's None).
get_system_status(m, sorted) ==
  LET n == IF Len(sorted) < RecentLimit THEN Len(sorted) ELSE RecentLimit
  IN [max_concurrent |-> m.max_concurrent,
      active_runs_count |-> Cardinality(DOMAIN m.active_runs),
      available_slots |-> m.max_concurrent - Cardinality(DOMAIN m.active_runs),
      system_status |-> IF Cardinality(DOMAIN m.active_runs) >= m.max_concurrent
                        THEN "at_capacity" ELSE "available",
      active_runs |-> DOMAIN m.active_runs,
      recent_completed |->
        [i \in 1..n |->
           LET run_data == m.completed_runs[sorted[i]]
           IN [run_id |-> sorted[i],
               status |-> run_data.status,
               completed_at |-> IF "completed_at" \in DOMAIN run_data
                                THEN <<run_data.completed_at>> ELSE <<>>]]]

\* GET /status: get_system_status under the lock; no table changes.
MgrGetStatus ==
  /\ \E sorted \in SortedCompleted(RM) : status' = get_system_status(RM, sorted)
  /\ Called("get_system_status", "none", "none")
  /\ UNCHANGED <<max_concurrent, active_runs, completed_runs, process_pids,
                 pid_file, alive, now, sigs, wrote, admitted, sysvars, calls,
                 sent, kill, loader>>

\* The run tables over time, and then the status report.
NextStatus ==
  \/ \E run_id \in RunIds, job_data \in Jobs :
       status = NoStatus /\ MgrAddRun(run_id, job_data)
  \/ \E run_id \in RunIds, success \in BOOLEAN :
       status = NoStatus /\ MgrCompleteRun(run_id, success)
  \/ \E run_id \in RunIds : status = NoStatus /\ MgrCancelRun(run_id)
  \/ status = NoStatus /\ Tick
  \/ MgrGetStatus

SpecStatus == Init /\ [][NextStatus]_vars

\* ------------------------------------------- WebSocketManager, called directly
\* Run output is broadcast by calls of send_log(run_id, message); the
\* messages are numbered in the order of the calls.  Up to MaxCalls calls
\* are in flight at once, each suspended in a socket send.
LogMsg(n) == Msg("log", "none", n)

\* send_log call c is suspended (its frame is kept), has returned or has
\* raised (the caller gets the result).
BroadcastContinue(c, s) ==
  IF s.f.st = "iter"
  THEN /\ SetHUB([s.h EXCEPT !.calls[c] = s.f])
       /\ UNCHANGED ret
  ELSE /\ SetHUB([s.h EXCEPT !.calls[c] = NoFrame])
       /\ Called("send_log", s.f.run,
                 IF s.f.st = "error" THEN "raised" ELSE "returned")

\* A caller invokes send_log: the call up to its first suspension.
Broadcast(c, run_id) ==
  /\ calls[c].st = "none"
  /\ sent < MaxMsgs
  /\ \E p \in send_log_first_picks(HUB, run_id, LogMsg(sent + 1), now) :
       BroadcastContinue(c, [send_log(HUB, run_id, LogMsg(sent + 1), now, p)
                               EXCEPT !.f.run = run_id])
  /\ sent' = sent + 1
  /\ finished' = NoFinish
  /\ UNCHANGED <<kill, loader, status, max_concurrent, active_runs,
                 completed_runs, process_pids, pid_file, alive, now, sigs,
                 wrote, admitted, input_queues, tasks, mon>>

\* A suspended send_log call resumes.
BroadcastResume(c) ==
  /\ calls[c].st = "iter"
  /\ \E p \in send_log_picks(HUB, calls[c]) :
       BroadcastContinue(c, send_log_next(HUB, calls[c], p))
  /\ finished' = NoFinish
  /\ UNCHANGED <<recvars, max_concurrent, active_runs, completed_runs,
                 process_pids, pid_file, alive, now, sigs, wrote, admitted,
                 input_queues, tasks, mon>>

\* Clients of /ws/{run_id} come, replay, close their end once connected and
\* are disconnected, while run output is broadcast.  Sockets and call slots
\* are interchangeable, so they are taken in the order of their numbers.
NextHub ==
  \/ \E ws \in HubSockets, run_id \in SysRunIds :
       /\ \A w \in HubSockets : w < ws => socks[w].pc # "free"
       /\ WsConnect(ws, run_id)
  \/ \E ws \in HubSockets : WsReplay(ws)
  \/ \E ws \in HubSockets : socks[ws].pc = "open" /\ PeerClose(ws)
  \/ \E ws \in HubSockets : WsDisconnected(ws)
  \/ \E c \in CallIds, run_id \in SysRunIds :
       /\ \A d \in CallIds : d < c => calls[d].st # "none"
       /\ Broadcast(c, run_id)
  \/ \E c \in CallIds : BroadcastResume(c)

SpecHub == Init /\ [][NextHub]_vars

\* User-initiated cancellation of a run that several clients are connected
\* to, while its launcher has not returned.
NextCancel ==
  \/ \E run_id \in SysRunIds, job_data \in Jobs : start_run(run_id, job_data)
  \/ \E run_id \in SysRunIds : CancelEndpoint(run_id)
  \/ \E run_id \in SysRunIds : CancelEndpointResume(run_id)
  \/ \E ws \in HubSockets, run_id \in SysRunIds :
       /\ \A w \in HubSockets : w < ws => socks[w].pc # "free"
       /\ WsConnect(ws, run_id)
  \/ \E ws \in HubSockets : WsReplay(ws)
  \/ \E ws \in HubSockets : socks[ws].pc = "open" /\ PeerClose(ws)
  \/ \E ws \in HubSockets : WsDisconnected(ws)
  \/ \E ws \in HubSockets : CloserRun(ws)

SpecCancel == Init /\ [][NextCancel]_vars

\* ================================================================= claims
\* ---- C1: after any interleaving of add_run, complete_run and cancel_run
\* calls the number of active runs is at most max_concurrent.
ThmC1_ActiveWithinCeiling ==
  Cardinality(DOMAIN active_runs) <= max_concurrent

\* A full table has just turned an admission away.
WitC1_RejectedAtCeiling ==
  /\ Cardinality(DOMAIN active_runs) = max_concurrent
  /\ ret.op = "add_run"
  /\ ret.value = "at_capacity"

\* ---- C2: add_run answers "started" and inserts the run as running exactly
\* when the active count is below the ceiling at the call; otherwise it
\* answers "at_capacity" and leaves the active, completed and pid tables as
\* they were.  complete_run of an active run frees its slot.
ThmC2_AdmissionContract ==
  [][/\ \A run_id \in RunIds, job_data \in Jobs :
          MgrAddRun(run_id, job_data) =>
            IF Cardinality(DOMAIN active_runs) < max_concurrent
            THEN /\ ret'.value = "started"
                 /\ DOMAIN active_runs' = DOMAIN active_runs \cup {run_id}
                 /\ active_runs'[run_id].status = "running"
                 /\ active_runs'[run_id].job_data = job_data
                 /\ \A o \in DOMAIN active_runs \ {run_id} :
                      active_runs'[o] = active_runs[o]
                 /\ UNCHANGED <<completed_runs, process_pids>>
            ELSE /\ ret'.value = "at_capacity"
                 /\ UNCHANGED <<active_runs, completed_runs, process_pids>>
     /\ \A run_id \in RunIds, success \in BOOLEAN :
          (MgrCompleteRun(run_id, success) /\ run_id \in DOMAIN active_runs) =>
            /\ DOMAIN active_runs' = DOMAIN active_runs \ {run_id}
            /\ Cardinality(DOMAIN active_runs') < max_concurrent
    ]_vars

\* Ceiling 1: "a" was admitted and has completed, and "b", which can only
\* have been admitted while "a" was not active, has just been started.
WitC2_CapacityScenario ==
  /\ max_concurrent = 1
  /\ "a" \in DOMAIN completed_runs
  /\ completed_runs["a"].status = "completed"
  /\ DOMAIN active_runs = {"b"}
  /\ ret.op = "add_run" /\ ret.run_id = "b" /\ ret.value = "started"

\* ---- C3: every run id that was ever admitted is in exactly one of
\* active_runs and completed_runs, also when run ids are reused.
OrigC3_ExactlyOneCollection ==
  \A run_id \in admitted :
    (run_id \in DOMAIN active_runs) # (run_id \in DOMAIN completed_runs)

\* ---- C4: once a terminal status is recorded for a run id, no later
\* add_run, complete_run or cancel_run changes the recorded status or what
\* get_run_status reports for it.
OrigC4_TerminalImmutable ==
  [][\A run_id \in RunIds :
       run_id \in DOMAIN completed_runs =>
         /\ run_id \in DOMAIN completed_runs'
         /\ completed_runs'[run_id].status = completed_runs[run_id].status
         /\ get_run_status(RM', run_id) = get_run_status(RM, run_id)
    ]_vars

\* ---- C5: cancel_run is idempotent.  On an active run it returns true and
\* leaves the run neither active nor with a registered pid; on a run that is
\* not active (unknown or terminal) it returns false and leaves active_runs
\* and completed_runs as they were; a cancel_run that directly follows a
\* cancel_run of the same run id returns false and changes no table.
ThmC5_CancelIdempotent ==
  [][\A run_id \in RunIds :
       MgrCancelRun(run_id) =>
         /\ run_id \in DOMAIN active_runs =>
              /\ ret'.value = "true"
              /\ run_id \notin DOMAIN active_runs'
              /\ run_id \notin DOMAIN process_pids'
         /\ run_id \notin DOMAIN active_runs =>
              /\ ret'.value = "false"
              /\ UNCHANGED <<active_runs, completed_runs>>
         /\ (ret.op = "cancel_run" /\ ret.run_id = run_id) =>
              /\ ret'.value = "false"
              /\ UNCHANGED <<active_runs, completed_runs, process_pids>>
    ]_vars

\* cancel_run returned true and the cancel_run of the same run id right
\* after it returned false.
WitC5_TrueThenFalse ==
  /\ ret.op = "cancel_run"
  /\ ret.value = "false"
  /\ ret.after = <<"cancel_run", "true">>
  /\ ret.run_id \in DOMAIN completed_runs
  /\ completed_runs[ret.run_id].status = "cancelled"

\* ---- C6: complete_run and cancel_run racing on one active run: the call
\* that runs first moves the run out of active_runs and records its one
\* terminal status (completed/failed, or cancelled); the other finds the run
\* not active and changes neither table, so the run is left in completed_runs
\* only, with the first call's status.
ThmC6_CompleteCancelRace ==
  [][\A run_id \in RunIds :
       /\ \A success \in BOOLEAN :
            MgrCompleteRun(run_id, success) =>
              IF run_id \in DOMAIN active_runs
              THEN /\ run_id \notin DOMAIN active_runs'
                   /\ run_id \in DOMAIN completed_runs'
                   /\ completed_runs'[run_id].status =
                        (IF success THEN "completed" ELSE "failed")
              ELSE UNCHANGED <<active_runs, completed_runs>>
       /\ MgrCancelRun(run_id) =>
            IF run_id \in DOMAIN active_runs
            THEN /\ run_id \notin DOMAIN active_runs'
                 /\ run_id \in DOMAIN completed_runs'
                 /\ completed_runs'[run_id].status = "cancelled"
            ELSE UNCHANGED <<active_runs, completed_runs>>
    ]_vars

\* cancel_run won the race (it returned true) and the complete_run of the
\* same run that came right after it left the run cancelled.
WitC6_CompleteAfterCancel ==
  /\ ret.op = "complete_run"
  /\ ret.after = <<"cancel_run", "true">>
  /\ ret.run_id \notin DOMAIN active_runs
  /\ ret.run_id \in DOMAIN completed_runs
  /\ completed_runs[ret.run_id].status = "cancelled"

\* ---- C7 as stated: cancel_run returns true exactly when the run id was in
\* the pid table or in the active set at the call.
OrigC7_TrueIffPidOrActive ==
  [][\A run_id \in RunIds :
       MgrCancelRun(run_id) =>
         (ret'.value = "true" <=>
            (run_id \in DOMAIN process_pids \/ run_id \in DOMAIN active_runs))
    ]_vars

\* ---- C7 amended: cancel_run returns true exactly when the run id was in
\* the active set at the call; a registered pid is signalled and
\* unregistered in either case, and a call that finds only a registered pid
\* returns false.
ThmC7_TrueIffActive ==
  [][\A run_id \in RunIds :
       MgrCancelRun(run_id) =>
         /\ ret'.value = "true" <=> run_id \in DOMAIN active_runs
         /\ run_id \in DOMAIN process_pids =>
              /\ sigs' # <<>>
              /\ sigs'[1] = <<process_pids[run_id], "SIGTERM">>
              /\ run_id \notin DOMAIN process_pids'
              /\ process_pids[run_id] \notin alive'
         /\ run_id \notin DOMAIN process_pids =>
              /\ sigs' = <<>>
              /\ UNCHANGED <<process_pids, alive>>
    ]_vars

\* cancel_run found and signalled a registered pid of a run that was not
\* active, and returned false.
WitC7_PidOnlyReturnsFalse ==
  /\ ret.op = "cancel_run"
  /\ ret.value = "false"
  /\ sigs # <<>>
  /\ ret.run_id \notin DOMAIN process_pids

\* ---- C8: whenever a cancellation (by the cancel endpoint or by the idle
\* monitor) moves an active run to Cancelled while the external process the
\* launcher started for it is still running, that process's pid is in the
\* pid table at that moment, it is sent SIGTERM and is no longer running
\* afterwards, and the pid is unregistered.
OrigC8_CancelTerminatesProcess ==
  [][\A run_id \in SysRunIds, t \in TaskIds :
       (/\ run_id \in DOMAIN active_runs
        /\ run_id \notin DOMAIN active_runs'
        /\ run_id \in DOMAIN completed_runs'
        /\ completed_runs'[run_id].status = "cancelled"
        /\ tasks[t].st = "launch"
        /\ tasks[t].run = run_id
        /\ tasks[t].pid # NoPid
        /\ tasks[t].pid \in alive)
       => (/\ run_id \in DOMAIN process_pids
           /\ process_pids[run_id] = tasks[t].pid
           /\ \E i \in 1..Len(sigs') : sigs'[i] = <<tasks[t].pid, "SIGTERM">>
           /\ tasks[t].pid \notin alive'
           /\ run_id \notin DOMAIN process_pids')]_vars

\* ---- C9: once a cancellation of an active run has finished, by the cancel
\* endpoint or by the idle monitor, the run has no entry in input_queues.
OrigC9_InputChannelGone ==
  \A run_id \in finished.runs : run_id \notin input_queues

\* ---- C10: every register_process or unregister_process that changes the
\* pid table (the one inside cancel_run too) writes the table to the pid
\* file, and when the write succeeds the file holds exactly the table.
ThmC10_WriteThrough ==
  [][process_pids' # process_pids =>
       /\ wrote' # "none"
       /\ wrote' = "ok" => (pid_file'.exists /\ pid_file'.data = process_pids')
    ]_vars

\* The unregister inside cancel_run was written through while another run's
\* pid stays registered and on file.
WitC10_CancelWrittenThrough ==
  /\ ret.op = "cancel_run"
  /\ sigs # <<>>
  /\ wrote = "ok"
  /\ process_pids # EmptyMap
  /\ pid_file.exists
  /\ pid_file.data = process_pids

\* ---- C11: load_orphaned_pids, once it has read the pid record, calls
\* kill_process for an entry exactly when is_process_running found its pid
\* alive; when it ends, every entry was visited, the pids it signalled are
\* those found alive (none if all were dead), and the unlink it ends with
\* leaves no pid file.  It raises nothing: a record that cannot be read, or
\* an unlink that fails, ends it with the file still there.
ThmC11_OrphanRecovery ==
  [][/\ \A run_id \in RunIds :
          (loader.pc = "loop" /\ run_id \notin DOMAIN loader.found
           /\ run_id \in DOMAIN loader'.found)
          => /\ loader'.found[run_id] = "alive" <=> loader.record[run_id] \in alive
             /\ loader'.found[run_id] = "alive"
                  <=> (kill'.pc = "signal" /\ kill'.pid = loader.record[run_id])
             /\ sigs' = sigs
     /\ (loader.pc = "loop" /\ loader'.pc = "done")
          => /\ DOMAIN loader'.found = DOMAIN loader'.record
             /\ {sigs'[i][1] : i \in 1..Len(sigs')}
                  = {loader'.record[r] : r \in {x \in DOMAIN loader'.found :
                                                   loader'.found[x] = "alive"}}
             /\ loader'.outcome \in {"unlinked", "unlink_failed"}
             /\ loader'.outcome = "unlinked" => ~pid_file'.exists
    ]_vars

\* A recovery that found one orphan alive and one dead has ended: only the
\* live one was signalled and the file is gone.
WitC11_MixedRecordRecovered ==
  /\ loader.pc = "done"
  /\ loader.outcome = "unlinked"
  /\ ~pid_file.exists
  /\ \E r1 \in DOMAIN loader.found, r2 \in DOMAIN loader.found :
       /\ loader.found[r1] = "alive"
       /\ loader.found[r2] = "dead"
       /\ loader.record[r1] # loader.record[r2]
       /\ \A i \in 1..Len(sigs) : sigs[i][1] = loader.record[r1]
       /\ sigs # <<>>

\* ---- C12: kill_process sends SIGTERM first, then polls liveness at most
\* timeout*10 times, sends SIGKILL only after that many polls all found the
\* process alive, and always ends returning True, whether the process was
\* gone at the first signal, went away during the polls or before the
\* SIGKILL, or had to be killed.
ThmC12_KillTerminates ==
  /\ [](/\ kill.polls <= KillPolls
        /\ kill.pc = "done" => kill.result = "true")
  /\ [][/\ (kill.pc = "signal" /\ kill' # kill)
             => sigs' = Append(sigs, <<kill.pid, "SIGTERM">>)
        /\ (Len(sigs') > Len(sigs) /\ sigs'[Len(sigs')][2] = "SIGKILL")
             => /\ kill.polls = KillPolls
                /\ sigs # <<>>
                /\ sigs[Len(sigs)] = <<kill.pid, "SIGTERM">>
                /\ sigs'[Len(sigs')][1] = kill.pid
        /\ (kill.pc = "poll" /\ kill'.pc = "done") => sigs' = sigs
       ]_vars
  /\ (kill.pc = "signal" ~> kill.pc = "done")

\* A kill_process that went all the way: every poll found the process
\* alive, SIGKILL followed SIGTERM, True was returned.
WitC12_ForcefulKill ==
  /\ kill.pc = "done"
  /\ kill.result = "true"
  /\ kill.polls = KillPolls
  /\ Len(sigs) >= 2
  /\ sigs[Len(sigs) - 1] = <<kill.pid, "SIGTERM">>
  /\ sigs[Len(sigs)] = <<kill.pid, "SIGKILL">>
\* ---------------------------------------------------------------------
\* C13: get_system_status.

\* The time a finished run reached its terminal state: complete_run writes
\* completed_at, cancel_run writes cancelled_at.
TerminalTime(run_data) ==
  IF "completed_at" \in DOMAIN run_data THEN run_data.completed_at
  ELSE run_data.cancelled_at

\* C13: the status report gives available_slots as the ceiling minus the
\* number of active runs, and recent_completed lists at most five finished
\* runs, the ones that reached a terminal state most recently, ordered by
\* that time, latest first, whichever terminal status they have.
OrigC13_StatusReport ==
  status # NoStatus =>
    LET rc == status.recent_completed
        listed == {rc[i].run_id : i \in DOMAIN rc}
    IN /\ status.available_slots
            = max_concurrent - Cardinality(DOMAIN active_runs)
       /\ Len(rc) <= RecentLimit
       /\ Len(rc) = IF Cardinality(DOMAIN completed_runs) < RecentLimit
                    THEN Cardinality(DOMAIN completed_runs) ELSE RecentLimit
       /\ \A i \in DOMAIN rc, j \in DOMAIN rc :
            i < j => TerminalTime(completed_runs[rc[i].run_id])
                       >= TerminalTime(completed_runs[rc[j].run_id])
       /\ \A r \in listed, q \in DOMAIN completed_runs \ listed :
            TerminalTime(completed_runs[r])
              >= TerminalTime(completed_runs[q])

\* ---------------------------------------------------------------------
\* C14, C15, C19: what a connection receives.

IsPrefix(p, q) == Len(p) <= Len(q) /\ SubSeq(q, 1, Len(p)) = p

\* C14: a connection whose connect overlaps with send_log calls receives
\* the buffered messages in their order before any live message and every
\* broadcast message exactly once: the run-output messages it has received
\* are consecutively numbered (no live message ahead of the replay, no
\* duplicate, no gap).
OrigC14_ReplayPrefixConsistent ==
  \A ws \in HubSockets :
    LET l == Logs(socks[ws].inbox)
    IN \A i \in 1..(Len(l) - 1) : l[i + 1].n = l[i].n + 1

\* C15: a send_log for a run without connections appends to the run's
\* buffer; a socket that connects when messages are buffered receives
\* connection_ack, then every buffered message in the order of the
\* broadcasts, before any later live message.
OrigC15_LateJoiner ==
  /\ [](\A ws \in HubSockets :
          LET sk == socks[ws]
              want == <<AckMsg>> \o sk.backlog
              got == <<sk.inbox[1]>> \o Logs(sk.inbox)
          IN sk.pc # "free" /\ sk.backlog # <<>> =>
               IF sk.pc \in {"acked", "replay"}
               THEN IsPrefix(got, want)
               ELSE IsPrefix(want, got))
  /\ [][\A run_id \in SysRunIds :
          /\ sent' = sent + 1
          /\ run_id \notin DOMAIN conns \/ conns[run_id] = {}
          => /\ run_id \in DOMAIN buffers'
             /\ buffers'[run_id] # <<>>
             /\ buffers'[run_id][Len(buffers'[run_id])] = LogMsg(sent')]_vars

\* C19: for two send_log calls A then B on one run, B possibly called
\* while A is suspended in a send, every connection that receives both
\* messages receives A's before B's: no connection has first received B's
\* message and then A's.
OrigC19_PerConnectionOrder ==
  \A ws \in HubSockets :
    LET l == Logs(socks[ws].inbox)
        First(n) == CHOOSE i \in 1..Len(l) :
                      l[i].n = n /\ \A k \in 1..(i - 1) : l[k].n # n
        got == {l[i].n : i \in 1..Len(l)}
    IN \A A \in got, B \in got : A < B => First(A) < First(B)

\* ---------------------------------------------------------------------
\* C16: the replay buffer.

\* The last MAX_BUFFER entries of a sequence.
MostRecent(seq) ==
  IF Len(seq) > MAX_BUFFER
  THEN SubSeq(seq, Len(seq) - MAX_BUFFER + 1, Len(seq)) ELSE seq

\* C16: every run's buffer holds at most MAX_BUFFER messages at all times;
\* a broadcast leaves the run's buffer, unless a disconnect in the same
\* call dropped it, as the most recent MAX_BUFFER of what it held plus the
\* new message, in broadcast order, and nothing but a broadcast or a
\* cleanup changes a buffer's messages: after k > MAX_BUFFER broadcasts
\* without a cleanup the buffer is the last MAX_BUFFER messages in order.
ThmC16_BufferBoundFifo ==
  /\ [](\A r \in DOMAIN buffers : Len(buffers[r]) <= MAX_BUFFER)
  /\ [][IF sent' = sent + 1
        THEN \E r \in SysRunIds :
               /\ r \in DOMAIN buffers' =>
                    buffers'[r] = MostRecent(Append(BufferOf(HUB, r),
                                                    LogMsg(sent')))
               /\ \A q \in SysRunIds \ {r} :
                    BufferOf(HUB', q) = BufferOf(HUB, q)
        ELSE \A r \in DOMAIN buffers' :
               buffers'[r] = BufferOf(HUB, r) \/ buffers'[r] = <<>>]_vars

\* More than MAX_BUFFER messages were broadcast to a run that no socket
\* ever connected to, and its buffer holds the last MAX_BUFFER of them.
WitC16_OldestEvicted ==
  /\ sent > MAX_BUFFER
  /\ \A ws \in HubSockets : socks[ws].pc = "free"
  /\ \E r \in DOMAIN buffers :
       buffers[r] = [i \in 1..MAX_BUFFER |-> LogMsg(sent - MAX_BUFFER + i)]

\* ---------------------------------------------------------------------
\* C17: disconnect.

OrigC18_FailureIsolated ==
  [][\A c \in CallIds :
       calls[c].st = "iter" /\ calls'[c].st = "none" /\ calls[c].disc # {} =>
         /\ ret'.op = "send_log" /\ ret'.value = "returned"
         /\ \A w \in calls[c].init \ calls[c].disc :
              \E i \in DOMAIN socks'[w].inbox :
                socks'[w].inbox[i] = calls[c].msg
         /\ calls[c].run \in DOMAIN conns' =>
              conns'[calls[c].run] \cap calls[c].disc = {}]_vars

\* ---------------------------------------------------------------------
\* C20: the cancel endpoint and the run's sockets.

\* The socket has received run_cancelled/close_connection, and no close
\* before it.
GotCancel(sk) ==
  \E i \in DOMAIN sk.inbox :
    /\ sk.inbox[i] = CancelMsg
    /\ \A k \in 1..(i - 1) : sk.inbox[k] # CloseMark

\* C20: when the cancel endpoint cancels an active run, get_run_status
\* answers cancelled from then on, a socket the server has closed has
\* received run_cancelled/close_connection first, and when the endpoint
\* drops the run's connections from tracking, every socket that was
\* connected when the broadcast began and whose transport is up has
\* received that message.
OrigC20_CancelOrdering ==
  /\ [](\A ws \in HubSockets :
          (\E i \in DOMAIN socks[ws].inbox : socks[ws].inbox[i] = CloseMark)
            => GotCancel(socks[ws]))
  /\ [][\A run_id \in SysRunIds :
          /\ ep_frames[run_id].st = "none"
               /\ ret'.op = "cancel_run" /\ ret'.value = "true"
               /\ ret # ret'
               => get_run_status(RM', run_id) = "cancelled"
          /\ ep_frames[run_id].st = "iter" /\ ep_frames'[run_id].st = "none"
               => /\ get_run_status(RM', run_id) = "cancelled"
                  /\ \A ws \in ep_frames[run_id].init :
                       socks'[ws].up => GotCancel(socks'[ws])]_vars

\* ---------------------------------------------------------------------
\* C27: the input channel of an active run.

\* C27: from its admission until it reaches a terminal status a run has an
\* input channel in input_queues: every active run has one, whatever
\* clients connect and disconnect meanwhile.
OrigC27_InputChannelLifetime ==
  \A run_id \in SysRunIds :
    run_id \in DOMAIN active_runs => run_id \in input_queues

\* ---------------------------------------------------------------------
\* C28: what the hub keeps after a cancel-by-id.

\* C28: when a successful cancel-by-id of a run has finished, the hub has
\* no connection set, no replay buffer and no activity-clock entry for the
\* run, whether or not the run had connections.
OrigC28_NoHubResidue ==
  \A run_id \in SysRunIds :
    finished.by = "endpoint" /\ run_id \in finished.runs =>
      /\ run_id \notin DOMAIN conns
      /\ run_id \notin DOMAIN buffers
      /\ run_id \notin DOMAIN last_activity

\* ---------------------------------------------------------------------
\* C23: send_log while the connection set changes.

\* C23: a send_log call during whose suspension in a send a socket was
\* connected to or disconnected from the run still returns without an
\* error, and every socket that was connected when it began and still is
\* has received the message.  (A call that is over in one step was never
\* suspended.)
OrigC23_IterationTolerant ==
  [][\A c \in CallIds :
       calls[c].st = "iter" /\ calls'[c].st = "none" =>
         /\ ret'.op = "send_log" /\ ret'.value = "returned"
         /\ \A w \in calls[c].init :
              /\ calls[c].run \in DOMAIN conns
              /\ w \in conns[calls[c].run]
              /\ socks[w].up
              => \E i \in DOMAIN socks'[w].inbox :
                   socks'[w].inbox[i] = calls[c].msg]_vars

\* ---------------------------------------------------------------------
\* C22: run_with_completion after the launch.

\* C22: when the launch of an admitted run has returned or raised (a raise
\* counts as a reported failure) and the wrapper has run to its end, the run
\* is not active, has no registered pid and no input channel, and its
\* recorded status is completed for a reported success and failed for a
\* reported failure, unless the run was already cancelled, and then it stays
\* cancelled.
OrigC22_WrapperCleansUp ==
  [][\A t \in AllTasks :
       tasks[t].st = "launch" /\ tasks'[t].st = "free" =>
         LET run_id == tasks[t].run
             reported == IF ret'.value = "true" THEN "completed" ELSE "failed"
         IN /\ run_id \notin DOMAIN active_runs'
            /\ run_id \notin DOMAIN process_pids'
            /\ run_id \notin input_queues'
            /\ ret'.op = "complete_run" /\ ret'.run_id = run_id
            /\ \/ get_run_status(RM', run_id) = reported
               \/ /\ get_run_status(RM, run_id) = "cancelled"
                  /\ get_run_status(RM', run_id) = "cancelled"]_vars

\* ---------------------------------------------------------------------
\* C24: close_all_connections against a concurrent connect.

\* C24: whenever close_all_connections, resumed from one of its ws.close
\* awaits, takes a socket of the run out of the connection table (by its
\* disconnect or by the final del self._conns[run_id]), that socket is
\* closed, whatever connected to the run while the call was suspended.
OrigC24_ClosedBeforeRemoved ==
  [][mon.pc = "close" /\ mon' # mon =>
       \A w \in AllSockets :
         /\ mon.cur \in DOMAIN conns /\ w \in conns[mon.cur]
         /\ ~(mon.cur \in DOMAIN conns' /\ w \in conns'[mon.cur])
         => ~socks'[w].up]_vars

\* ---------------------------------------------------------------------
\* C26: stop_idle_monitor in the middle of a run's idle sequence.

\* C26: when stop_idle_monitor cancels the loop, the run whose idle sequence
\* the loop is in (idle_timeout already handed to send_log) has had the
\* whole sequence applied: it is not active, it has no entry in the
\* connection table and no activity entry.  Every other run is untouched.
OrigC26_StopLeavesNoPartialRun ==
  [][mon.pc # "stopped" /\ mon'.pc = "stopped" =>
       \A run_id \in SysRunIds :
         run_id = mon.cur =>
           /\ run_id \notin DOMAIN active_runs'
           /\ run_id \notin DOMAIN conns'
           /\ run_id \notin DOMAIN last_activity']_vars

\* ---------------------------------------------------------------------
\* C21: the idle sequence of a scan.

\* C21: the monitor starts a run's idle sequence only at a scan that finds
\* the run's activity older than the timeout and a connection tracked for
\* it.  For a run that was admitted: when the monitor, not stopped, is past
\* the idle_timeout broadcast, cancel_run has been invoked and the run is
\* not active; and when it leaves the run's sequence no connection is
\* tracked for the run and its activity entry is gone.
OrigC21_IdleSequenceCompletes ==
  [][\A run_id \in SysRunIds :
       /\ mon.cur # run_id /\ mon'.cur = run_id =>
            /\ run_id \in DOMAIN last_activity
            /\ now - last_activity[run_id] > IDLE_TIMEOUT_SECONDS
            /\ run_id \in DOMAIN conns /\ conns[run_id] # {}
       /\ (/\ run_id \in admitted
           /\ mon.cur = run_id /\ mon.pc = "send"
           /\ mon'.pc \notin {"send", "stopped"}) =>
            /\ ret'.op = "cancel_run" /\ ret'.run_id = run_id
            /\ run_id \notin DOMAIN active_runs'
       /\ (/\ run_id \in admitted
           /\ mon.cur = run_id /\ mon'.cur # run_id
           /\ mon'.pc # "stopped") =>
            /\ run_id \notin DOMAIN conns' \/ conns'[run_id] = {}
            /\ run_id \notin DOMAIN last_activity']_vars

\* ---------------------------------------------------------------------
\* C25: the monitor after an error.

\* C25: the monitor loop never exits; after an error it is in the long
\* sleep and goes from there to the ordinary sleep before the next scan.  An
\* active run whose idle sequence was abandoned on an error (its
\* idle_timeout is in the buffer, the monitor is no longer in the run's
\* sequence, the run is still active) and which keeps a connection is
\* cancelled by a later cycle, unless its last client leaves first.  The
\* case is taken where no further client can connect, one connection is
\* tracked, and the clock has room for the run to go idle again.
ThmC25_LaterCycleCancels ==
  /\ [](mon.pc \in {"sleep", "send", "close", "backoff"})
  /\ [][mon.pc = "backoff" /\ mon' # mon => mon'.pc = "sleep"]_vars
  /\ \A run_id \in SysRunIds :
       (/\ run_id \in DOMAIN active_runs
        /\ mon.cur # run_id
        /\ run_id \in DOMAIN buffers
        /\ \E i \in DOMAIN buffers[run_id] : buffers[run_id][i] = IdleMsg
        /\ run_id \in DOMAIN conns /\ Cardinality(conns[run_id]) = 1
        /\ \A w \in HubSockets : socks[w].pc # "free"
        /\ now + IDLE_TIMEOUT_SECONDS < MaxMonTime)
       ~> (\/ get_run_status(RM, run_id) = "cancelled"
           \/ run_id \notin DOMAIN conns
           \/ conns[run_id] = {})

\* The monitor is past cancel_run in a run's idle sequence, the run is
\* cancelled, and the run's buffer holds idle_timeout twice: the first one
\* is left from an earlier cycle that was abandoned on an error (a sequence
\* that runs to its end leaves no buffer behind with a connection tracked).
\* One client had left by then and the other one stayed.
WitC25_CancelledAfterBackoff ==
  \E run_id \in SysRunIds :
    /\ mon.pc = "close" /\ mon.cur = run_id
    /\ get_run_status(RM, run_id) = "cancelled"
    /\ run_id \in DOMAIN buffers
    /\ buffers[run_id] = <<IdleMsg, IdleMsg>>
    /\ run_id \in DOMAIN conns /\ Cardinality(conns[run_id]) = 1
    /\ \A w \in HubSockets : socks[w].pc # "free"

====
